---- MODULE Spec2Model ----
(***************************************************************************)
(* Model of charcoal's remote console (RCON) client:                       *)
(*   - the wire codec RCONPacket.encode / RCONPacket.decode,               *)
(*   - the login handshake establish_connection with its registry of       *)
(*     connections, and                                                    *)
(*   - send_command.                                                       *)
(* Bytes are naturals 0..255, byte strings are sequences of bytes, text is *)
(* a sequence of Unicode code points.                                      *)
(***************************************************************************)
EXTENDS Integers, Sequences, FiniteSets, TLC

(***************************************************************************)
(* Program constants (rcon.py:11-14, 22).                                  *)
(***************************************************************************)
LOGIN == 3
COMMAND == 2
RESPONSE == 0
AUTH_FAIL == -1
MinRandomId == 16
MaxRandomId == 214742069

(***************************************************************************)
(* Bounds of the model.                                                    *)
(***************************************************************************)
MaxPayloadLen == 2
MaxTailLen == 7
MaxConns == 3

(***************************************************************************)
(* Byte strings.                                                           *)
(***************************************************************************)
Min(a, b) == IF a < b THEN a ELSE b
Max(a, b) == IF a < b THEN b ELSE a

\* Python slice data[lo:hi] for 0 <= lo; a negative hi counts from the end.
Slice(data, lo, hi) ==
    LET n == Len(data)
        h == IF hi < 0 THEN Max(n + hi, 0) ELSE Min(hi, n)
    IN  IF lo >= h THEN <<>> ELSE [i \in 1..(h - lo) |-> data[lo + i]]

\* Python slice data[lo:].
SliceFrom(data, lo) == Slice(data, lo, Len(data))

\* struct.pack('<i', n): two's complement, little endian, 4 bytes.
Pack(n) ==
    << n % 256, (n \div 256) % 256, (n \div 65536) % 256, (n \div 16777216) % 256 >>

\* struct.unpack('<i', b)[0]; struct.error unless b has exactly 4 bytes.
CanUnpack(b) == Len(b) = 4

Unpack(b) ==
    LET hi == IF b[4] >= 128 THEN b[4] - 256 ELSE b[4]
    IN  b[1] + 256 * b[2] + 65536 * b[3] + 16777216 * hi

(***************************************************************************)
(* UTF-8 (str.encode('utf8') / bytes.decode('utf8'), strict).              *)
(***************************************************************************)
Utf8Char(cp) ==
    IF cp < 128 THEN << cp >>
    ELSE IF cp < 2048 THEN << 192 + (cp \div 64), 128 + (cp % 64) >>
    ELSE IF cp < 65536 THEN
        << 224 + (cp \div 4096), 128 + ((cp \div 64) % 64), 128 + (cp % 64) >>
    ELSE << 240 + (cp \div 262144), 128 + ((cp \div 4096) % 64),
            128 + ((cp \div 64) % 64), 128 + (cp % 64) >>

RECURSIVE Utf8Encode(_)
Utf8Encode(text) ==
    IF text = <<>> THEN <<>>
    ELSE Utf8Char(Head(text)) \o Utf8Encode(Tail(text))

IsCont(b) == b >= 128 /\ b <= 191

\* Number of bytes of the character starting at the head of b, 0 if the
\* head of b is not a well-formed UTF-8 sequence.
Utf8Width(b) ==
    LET b1 == b[1]
        n == Len(b)
    IN  IF b1 < 128 THEN 1
        ELSE IF b1 >= 194 /\ b1 <= 223
            THEN IF n >= 2 /\ IsCont(b[2]) THEN 2 ELSE 0
        ELSE IF b1 >= 224 /\ b1 <= 239
            THEN IF n >= 3 /\ IsCont(b[2]) /\ IsCont(b[3])
                    /\ (b1 = 224 => b[2] >= 160)
                    /\ (b1 = 237 => b[2] <= 159)
                 THEN 3 ELSE 0
        ELSE IF b1 >= 240 /\ b1 <= 244
            THEN IF n >= 4 /\ IsCont(b[2]) /\ IsCont(b[3]) /\ IsCont(b[4])
                    /\ (b1 = 240 => b[2] >= 144)
                    /\ (b1 = 244 => b[2] <= 143)
                 THEN 4 ELSE 0
        ELSE 0

Utf8CodePoint(b, w) ==
    IF w = 1 THEN b[1]
    ELSE IF w = 2 THEN (b[1] - 192) * 64 + (b[2] - 128)
    ELSE IF w = 3 THEN (b[1] - 224) * 4096 + (b[2] - 128) * 64 + (b[3] - 128)
    ELSE (b[1] - 240) * 262144 + (b[2] - 128) * 4096
         + (b[3] - 128) * 64 + (b[4] - 128)

RECURSIVE Utf8Valid(_)
Utf8Valid(b) ==
    IF b = <<>> THEN TRUE
    ELSE LET w == Utf8Width(b)
         IN  w > 0 /\ Utf8Valid(SliceFrom(b, w))

RECURSIVE Utf8Decode(_)
Utf8Decode(b) ==
    IF b = <<>> THEN <<>>
    ELSE LET w == Utf8Width(b)
         IN  << Utf8CodePoint(b, w) >> \o Utf8Decode(SliceFrom(b, w))

(***************************************************************************)
(* RCONPacket.                                                             *)
(***************************************************************************)
Packet(payload, r_type, r_id) ==
    [kind |-> "packet", payload |-> payload, r_type |-> r_type, r_id |-> r_id]

Raised(name) == [kind |-> name]

\* encode with a length prefix that counts itself.
Encode_CountsPrefix(p) ==
    LET data == Pack(p.r_id) \o Pack(p.r_type) \o Utf8Encode(p.payload) \o << 0, 0 >>
    IN  Pack(Len(data) + 4) \o data

\* RCONPacket.encode: the frame, 4-byte length prefix included.
Encode(p) ==
    LET data == Pack(p.r_id) \o Pack(p.r_type) \o Utf8Encode(p.payload) \o << 0, 0 >>
    IN  Pack(Len(data)) \o data

\* decode that keeps the two pad bytes in the payload.
Decode_KeepsPad(data) ==
    IF ~CanUnpack(Slice(data, 0, 4)) THEN Raised("struct.error")
    ELSE IF ~CanUnpack(Slice(data, 4, 8)) THEN Raised("struct.error")
    ELSE IF Unpack(Slice(data, 0, 4)) = AUTH_FAIL THEN Raised("AuthFailure")
    ELSE IF ~Utf8Valid(SliceFrom(data, 8)) THEN Raised("UnicodeDecodeError")
    ELSE Packet(Utf8Decode(SliceFrom(data, 8)),
                Unpack(Slice(data, 4, 8)),
                Unpack(Slice(data, 0, 4)))

\* decode that decodes the payload before it looks at the id.
Decode_PayloadFirst(data) ==
    IF ~CanUnpack(Slice(data, 0, 4)) THEN Raised("struct.error")
    ELSE IF ~CanUnpack(Slice(data, 4, 8)) THEN Raised("struct.error")
    ELSE IF ~Utf8Valid(Slice(data, 8, -2)) THEN Raised("UnicodeDecodeError")
    ELSE IF Unpack(Slice(data, 0, 4)) = AUTH_FAIL THEN Raised("AuthFailure")
    ELSE Packet(Utf8Decode(Slice(data, 8, -2)),
                Unpack(Slice(data, 4, 8)),
                Unpack(Slice(data, 0, 4)))

\* RCONPacket.decode: a packet, or the exception it raises.
Decode(data) ==
    IF ~CanUnpack(Slice(data, 0, 4)) THEN Raised("struct.error")
    ELSE IF ~CanUnpack(Slice(data, 4, 8)) THEN Raised("struct.error")
    ELSE IF Unpack(Slice(data, 0, 4)) = AUTH_FAIL THEN Raised("AuthFailure")
    ELSE IF ~Utf8Valid(Slice(data, 8, -2)) THEN Raised("UnicodeDecodeError")
    ELSE Packet(Utf8Decode(Slice(data, 8, -2)),
                Unpack(Slice(data, 4, 8)),
                Unpack(Slice(data, 0, 4)))

(***************************************************************************)
(* State.                                                                  *)
(*   connections  self.connections: server name -> connection (0: absent)  *)
(*   writers      state of the transport of each connection                *)
(*   peer         server name a connection was opened for                  *)
(*   task         position and locals of each running coroutine            *)
(*   c_*          the codec exercised on its own                           *)
(***************************************************************************)
VARIABLES connections, writers, peer, task, c_pc, c_pkt, c_frame, c_buf, c_dec

(***************************************************************************)
(*   procs        the process table of the operating system                *)
(*   sp           the ServerProcess object: its name and self.process      *)
(*   sup          the running call of find, checkServerRunning or          *)
(*                _terminate, with its locals                              *)
(*   ctl          the running call of serverStop, serverTerminate or       *)
(*                serverStatus, with its locals                            *)
(*   now          seconds on the clock asyncio.sleep reads                 *)
(*   screen       the commands delivered to the server's screen, in order  *)
(*   up           whether the server of the lifecycle calls is running     *)
(***************************************************************************)
VARIABLES procs, sp, sup, ctl, now, screen, up, ctl2

VARIABLES props, info, sized, ttl, dirs, listing, store

vars == << connections, writers, peer, task, c_pc, c_pkt, c_frame, c_buf, c_dec,
           procs, sp, sup, ctl, now, screen, up, ctl2,
           props, info, sized, ttl, dirs, listing, store >>

procVars == << procs, sp, sup >>

ctlVars == << ctl, now, screen, up >>

otherVars == << ctl2 >>

propsVars == << props, info >>

sizedVars == << sized >>

ttlVars == << ttl >>

dirsVars == << dirs, listing >>

storeVars == << store >>

libVars == << propsVars, sizedVars, ttlVars, dirsVars, storeVars >>

sessionVars == << connections, writers, peer, task >>

codecVars == << c_pc, c_pkt, c_frame, c_buf, c_dec >>

\* What the actions of one part of the program leave alone.
outsideSession == << codecVars, procVars, ctlVars, otherVars, libVars >>

outsideCodec == << sessionVars, procVars, ctlVars, otherVars, libVars >>

outsideProc == << sessionVars, codecVars, ctlVars, otherVars, libVars >>

outsideCtl == << sessionVars, codecVars, procVars, otherVars, libVars >>

\* What a second caller of the lifecycle operations leaves alone.
outsideOther == << sessionVars, codecVars, procVars, libVars >>

programVars == << sessionVars, codecVars, procVars, ctlVars, otherVars >>

outsideProps == << programVars, sizedVars, ttlVars, dirsVars, storeVars >>

outsideSized == << programVars, propsVars, ttlVars, dirsVars, storeVars >>

outsideTtl == << programVars, propsVars, sizedVars, dirsVars, storeVars >>

outsideDirs == << programVars, propsVars, sizedVars, ttlVars, storeVars >>

outsideStore == << programVars, propsVars, sizedVars, ttlVars, dirsVars >>

Servers == {"alpha", "beta"}

Conns == 1..MaxConns

NoConn == 0

Tasks == {"t1", "t2"}

\* Callers of the sequential specification: one coroutine at a time.
SeqTasks == {"t1"}

\* Draw that can also give the auth-failure sentinel.
RandomIds_WithSentinel == {AUTH_FAIL, MaxRandomId}

\* Values random.randint(16, 214742069) is drawn from in the model.
RandomIds == {MinRandomId, MaxRandomId}

\* rcon_info['rcon.password'] and the command text, as code points.
Password == << 112, 119 >>

CommandText == << 108, 105, 115, 116 >>

(***************************************************************************)
(* Results of a coroutine.                                                 *)
(***************************************************************************)
Pending == [kind |-> "pending", value |-> "", text |-> <<>>, details |-> ""]

Return(v) == [kind |-> "return", value |-> v, text |-> <<>>, details |-> ""]

ReturnStr(payload) ==
    [kind |-> "return", value |-> "str", text |-> payload, details |-> ""]

Raise(exc, details) ==
    [kind |-> "raise", value |-> exc, text |-> <<>>, details |-> details]

IdleTask ==
    [pc |-> "idle", op |-> "none", server |-> "none", con |-> NoConn,
     r_id |-> 0, old |-> NoConn, resp |-> <<>>, nread |-> 0,
     wrote |-> FALSE, result |-> Pending]

(***************************************************************************)
(* What the remote end sends in answer to a request with id r_id, up to    *)
(* the point where it stops sending.                                       *)
(***************************************************************************)
ResponsePayloads == { <<>>, << 111, 107 >> }

ResponseIds(r_id) == { r_id, r_id + 1, AUTH_FAIL }

ResponseTypes == { RESPONSE, COMMAND }

WellFormedStreams(r_id) ==
    { Encode(Packet(p, t, i)) :
        p \in ResponsePayloads, t \in ResponseTypes, i \in ResponseIds(r_id) }

MalformedStreams(r_id) ==
    { <<>>,                                                \* EOF at once
      << 10, 0 >>,                                         \* prefix cut short
      Pack(10) \o Pack(r_id) \o << 0, 0, 0 >>,             \* body cut short
      Pack(10) \o Pack(AUTH_FAIL) \o << 2, 0 >>,           \* body cut short
      Pack(4) \o Pack(AUTH_FAIL),                          \* body of 4 bytes
      Pack(6) \o Pack(r_id) \o << 0, 0 >>,                 \* body of 6 bytes
      Pack(0),                                             \* empty body
      Pack(-1),                                            \* negative length
      Pack(11) \o Pack(r_id) \o Pack(RESPONSE) \o << 255, 0, 0 >> }

Streams(r_id) == WellFormedStreams(r_id) \cup MalformedStreams(r_id)

\* reader.read(4) returns at least one byte unless the stream is at EOF,
\* and at most 4.
ReadSizes(stream) ==
    IF stream = <<>> THEN {0} ELSE 1..Min(4, Len(stream))

(***************************************************************************)
(* reader.read(4), struct.unpack and reader.readexactly (rcon.py:63-69,    *)
(* 95-102).                                                                *)
(***************************************************************************)
PrefixOk(resp, nread) == CanUnpack(Slice(resp, 0, nread))

response_length(resp) == Unpack(Slice(resp, 0, 4))

\* The outcome of readexactly(response_length) on the rest of the stream.
ReadExactly(resp) ==
    LET n == response_length(resp)
        rest == SliceFrom(resp, 4)
    IN  IF n < 0 THEN [kind |-> "ValueError", data |-> <<>>]
        ELSE IF Len(rest) < n THEN [kind |-> "IncompleteReadError", data |-> rest]
        ELSE [kind |-> "data", data |-> Slice(rest, 0, n)]

(***************************************************************************)
(* Helpers on the state.                                                   *)
(***************************************************************************)
Opened == { c \in Conns : writers[c] # "unopened" }

\* asyncio.open_connection hands out a connection that did not exist before.
FreshConn == Cardinality(Opened) + 1

\* `server in self.connections`
InConnections(server) == connections[server] # NoConn

SetTask(t, rec) == task' = [task EXCEPT ![t] = rec]

Finish(t, res) == SetTask(t, [task[t] EXCEPT !.pc = "done", !.result = res])

(***************************************************************************)
(* establish_connection (rcon.py:49-85), one action per stretch of code    *)
(* between two awaits.                                                     *)
(***************************************************************************)
\* rcon.py:49-50: the call, up to `await self._get_rcon_info(server)`.
LoginCall(t, server) ==
    /\ task[t].pc = "idle"
    /\ FreshConn \in Conns
    /\ SetTask(t, [IdleTask EXCEPT !.pc = "l_info", !.op = "login",
                                   !.server = server,
                                   !.old = connections[server]])
    /\ UNCHANGED << connections, writers, peer, outsideSession >>

\* rcon.py:51-58: no rcon info returns False; otherwise the login packet
\* gets its random id and the connection is requested.
LoginGotInfo(t, has_info, r_id) ==
    /\ task[t].pc = "l_info"
    /\ IF has_info
       THEN SetTask(t, [task[t] EXCEPT !.pc = "l_open", !.r_id = r_id])
       ELSE Finish(t, Return("False"))
    /\ UNCHANGED << connections, writers, peer, outsideSession >>

\* rcon.py:56-61: open_connection returns (or raises OSError); the login
\* frame is written and drain is awaited.
LoginOpened(t, connected) ==
    /\ task[t].pc = "l_open"
    /\ IF connected
       THEN /\ FreshConn \in Conns
            /\ writers' = [writers EXCEPT ![FreshConn] = "open"]
            /\ peer' = [peer EXCEPT ![FreshConn] = task[t].server]
            /\ SetTask(t, [task[t] EXCEPT !.pc = "l_read", !.con = FreshConn,
                                          !.wrote = TRUE])
       ELSE /\ Finish(t, Raise("OSError", ""))
            /\ UNCHANGED << writers, peer >>
    /\ UNCHANGED << connections, outsideSession >>

\* rcon.py:63: read(4) returns nread bytes of what the remote sends and
\* struct.unpack takes them; readexactly is awaited.
LoginReadPrefix(t, stream, nread) ==
    /\ task[t].pc = "l_read"
    /\ IF PrefixOk(stream, nread)
       THEN SetTask(t, [task[t] EXCEPT !.pc = "l_body", !.resp = stream,
                                       !.nread = nread])
       ELSE SetTask(t, [task[t] EXCEPT !.pc = "done", !.resp = stream,
                                       !.nread = nread,
                                       !.result = Raise("struct.error", "")])
    /\ UNCHANGED << connections, writers, peer, outsideSession >>

\* rcon.py:69: the error of a login whose response body is incomplete.
\* Variant raising the error of a rejected login instead.
IncompleteLogin_AsRejected == Raise("RconAuthFailure", "authentication rejected")

IncompleteLogin == Raise("RconAuthFailure", "incomplete login response")

\* rcon.py:75: the error of a login answered with the auth-failure sentinel.
RejectedLogin == Raise("RconAuthFailure", "authentication rejected")

\* ack that takes every decoded response for the echo.
Ack_IgnoresId(response, r_id) == response.r_id # AUTH_FAIL

\* rcon.py:77: ack = response.r_id == login_packet.r_id
Ack(response, r_id) == response.r_id = r_id

\* rcon.py:65-85: readexactly returns or raises; the response is decoded;
\* an acknowledged login closes the old connection of the server, if any,
\* and awaits wait_closed, or registers the new connection at once.
LoginReadBody(t) ==
    LET me   == task[t]
        read == ReadExactly(me.resp)
        response == Decode(read.data)
    IN
    /\ me.pc = "l_body"
    /\ IF read.kind = "ValueError"
       THEN /\ Finish(t, Raise("ValueError", ""))
            /\ UNCHANGED << connections, writers >>
       ELSE IF read.kind = "IncompleteReadError"
       THEN /\ Finish(t, IncompleteLogin)
            /\ UNCHANGED << connections, writers >>
       ELSE IF response.kind = "AuthFailure"
       THEN /\ Finish(t, RejectedLogin)
            /\ UNCHANGED << connections, writers >>
       ELSE IF response.kind # "packet"
       THEN /\ Finish(t, Raise(response.kind, ""))
            /\ UNCHANGED << connections, writers >>
       ELSE IF ~Ack(response, me.r_id)
       THEN /\ Finish(t, Return("False"))
            /\ UNCHANGED << connections, writers >>
       ELSE IF InConnections(me.server)
       THEN /\ writers' = [writers EXCEPT ![connections[me.server]] = "closed"]
            /\ SetTask(t, [me EXCEPT !.pc = "l_wait_closed"])
            /\ UNCHANGED connections
       ELSE /\ connections' = [connections EXCEPT ![me.server] = me.con]
            /\ Finish(t, Return("True"))
            /\ UNCHANGED writers
    /\ UNCHANGED << peer, outsideSession >>

\* rcon.py:82-85: wait_closed returns; the new connection is registered.
LoginOldClosed(t) ==
    /\ task[t].pc = "l_wait_closed"
    /\ connections' = [connections EXCEPT ![task[t].server] = task[t].con]
    /\ Finish(t, Return("True"))
    /\ UNCHANGED << writers, peer, outsideSession >>

(***************************************************************************)
(* send_command (rcon.py:87-113).                                          *)
(***************************************************************************)
\* rcon.py:90-93: the command packet gets its random id and is written;
\* a transport that was closed drops the bytes.
CommandCall(t, con, r_id) ==
    /\ task[t].pc = "idle"
    /\ con \in Opened
    /\ SetTask(t, [IdleTask EXCEPT !.pc = "c_read", !.op = "command",
                                   !.server = peer[con], !.con = con,
                                   !.r_id = r_id,
                                   !.old = connections[peer[con]],
                                   !.wrote = (writers[con] = "open")])
    /\ UNCHANGED << connections, writers, peer, outsideSession >>

\* rcon.py:93-95: drain raises ConnectionResetError on a closed transport;
\* otherwise read(4) returns nread bytes and struct.unpack takes them.
CommandReadPrefix(t, stream, nread) ==
    /\ task[t].pc = "c_read"
    /\ IF writers[task[t].con] # "open"
       THEN Finish(t, Raise("ConnectionResetError", ""))
       ELSE IF PrefixOk(stream, nread)
       THEN SetTask(t, [task[t] EXCEPT !.pc = "c_body", !.resp = stream,
                                       !.nread = nread])
       ELSE SetTask(t, [task[t] EXCEPT !.pc = "done", !.resp = stream,
                                       !.nread = nread,
                                       !.result = Raise("struct.error", "")])
    /\ UNCHANGED << connections, writers, peer, outsideSession >>

\* result that does not look at the type of the response.
CommandResult_AnyType(response, r_id) ==
    IF Ack(response, r_id)
    THEN ReturnStr(response.payload)
    ELSE Return("None")

\* rcon.py:109-113: the value send_command returns for a decoded response.
CommandResult(response, r_id) ==
    IF Ack(response, r_id) /\ response.r_type = RESPONSE
    THEN ReturnStr(response.payload)
    ELSE Return("None")

\* rcon.py:97-113.
CommandReadBody(t) ==
    LET me   == task[t]
        read == ReadExactly(me.resp)
        response == Decode(read.data)
    IN
    /\ me.pc = "c_body"
    /\ IF read.kind = "ValueError" THEN Finish(t, Raise("ValueError", ""))
       ELSE IF read.kind = "IncompleteReadError" THEN Finish(t, Return("None"))
       ELSE IF response.kind # "packet" THEN Finish(t, Raise(response.kind, ""))
       ELSE Finish(t, CommandResult(response, me.r_id))
    /\ UNCHANGED << connections, writers, peer, outsideSession >>

\* The caller takes the result; the coroutine is gone.
TaskReturn(t) ==
    /\ task[t].pc = "done"
    /\ SetTask(t, IdleTask)
    /\ UNCHANGED << connections, writers, peer, outsideSession >>

(***************************************************************************)
(* The codec on its own: encode a packet and decode the body of the frame  *)
(* as the session reads it, or decode a raw buffer.                        *)
(***************************************************************************)
CodecChars == { 0, 104, 233, 8364, 128512 }

Help == << 104, 101, 108, 112 >>

CodecTexts ==
    UNION { [1..n -> CodecChars] : n \in 0..MaxPayloadLen } \cup { Help }

CodecTypes == { LOGIN, COMMAND, RESPONSE }

CodecIds == { AUTH_FAIL, -2, 0, MinRandomId, 42, MaxRandomId,
              2147483647, -2147483647 - 1 }

CodecPackets ==
    { Packet(p, t, i) : p \in CodecTexts, t \in CodecTypes, i \in CodecIds }

TailBytes == { 0, 104, 255 }

RawBuffers ==
    { Pack(i) \o tail :
        i \in { AUTH_FAIL, 42 },
        tail \in UNION { [1..n -> TailBytes] : n \in 0..MaxTailLen } }

NoPacket == Packet(<<>>, RESPONSE, 0)

NotDecoded == [kind |-> "none"]

CodecEncode ==
    /\ c_pc = "new"
    /\ c_frame' = Encode(c_pkt)
    /\ c_pc' = "encoded"
    /\ UNCHANGED << c_pkt, c_buf, c_dec, outsideCodec >>

\* rcon.py:63-72: the session decodes the frame without its length prefix.
CodecDecodeFrame ==
    /\ c_pc = "encoded"
    /\ c_buf' = SliceFrom(c_frame, 4)
    /\ c_dec' = Decode(SliceFrom(c_frame, 4))
    /\ c_pc' = "decoded"
    /\ UNCHANGED << c_pkt, c_frame, outsideCodec >>

CodecDecodeRaw ==
    /\ c_pc = "raw"
    /\ c_dec' = Decode(c_buf)
    /\ c_pc' = "raw_decoded"
    /\ UNCHANGED << c_pkt, c_frame, c_buf, outsideCodec >>

(***************************************************************************)
(* The process supervisor (process.py).  A command line is a list of       *)
(* arguments, an argument a sequence of characters.  Names the source      *)
(* leaves unbound are read as the names they stand for: `name` in          *)
(* _post_init is self.name.                                                *)
(***************************************************************************)
MaxProcs == 3

Pids == 1..MaxProcs

\* The parent of a process whose parent has exited, and of the launcher.
InitPid == 0

NoProcess == 0

Alpha == << "a", "l", "p", "h", "a" >>

DotJar == << ".", "j", "a", "r" >>

Names == { Alpha }

\* lifecycle.py:24-26: the command line serverStart gives the screen wrapper.
Launcher(name) ==
    << << "s", "c", "r", "e", "e", "n" >>, << "-", "h" >>,
       << "5", "0", "0", "0" >>, << "-", "d", "m", "S" >>, name,
       << "j", "a", "v", "a" >>, << "-", "j", "a", "r" >>, name \o DotJar,
       << "n", "o", "g", "u", "i" >> >>

\* The game process the wrapper runs, its jar given by a path.
Game(name) ==
    << << "j", "a", "v", "a" >>, << "-", "j", "a", "r" >>,
       << "/" >> \o name \o DotJar, << "n", "o", "g", "u", "i" >> >>

\* A process that has the name as an argument and no jar.
Follower(name) == << << "t", "a", "i", "l" >>, name >>

CmdLines == { Launcher(Alpha), Game(Alpha), Follower(Alpha) }

\* creator keeps the process that spawned it; parent is its ppid now.
NoProc ==
    [state |-> "none", parent |-> InitPid, creator |-> InitPid,
     cmdline |-> << >>]

\* `x in cmdline` on a list: some argument equals x.
InList(x, list) == \E i \in 1..Len(list) : list[i] = x

\* `sub in arg` on strings: sub is a substring of arg.
IsSubstring(sub, arg) ==
    \E i \in 0..(Len(arg) - Len(sub)) :
        \A j \in 1..Len(sub) : arg[i + j] = sub[j]

\* psutil.process_iter: the processes of the table.
Running == { p \in Pids : procs[p].state = "alive" }

\* Process.children(): the processes whose parent is p.
\* Every process the table has held so far.
Started == { p \in Pids : procs[p].state # "none" }

Children(p) == { q \in Running : procs[q].parent = p }

\* Process.children(recursive=True).
RECURSIVE Within(_, _)
Within(ps, n) ==
    IF n = 0 THEN ps
    ELSE Within(ps \cup UNION { Children(q) : q \in ps }, n - 1)

Descendants(p) == Within(Children(p), MaxProcs) \ {p}

MaxOf(ps) == CHOOSE p \in ps : \A q \in ps : q <= p

\* The caller is free to make its next call.
CanCall == sup.pc \in {"idle", "done"}

IdleSup ==
    [pc |-> "idle", op |-> "none", name |-> << >>, processes |-> {},
     alive |-> {}, first_alive |-> {}, terminated |-> {}, killed |-> {},
     seen |-> {}, result |-> Pending]

SupFinish(rec, res) == sup' = [rec EXCEPT !.pc = "done", !.result = res]

\* exceptions.py:67-69.
TerminationFailed(server) ==
    [kind |-> "raise", value |-> "TerminationFailed", text |-> server,
     details |-> ""]

(***************************************************************************)
(* The operating system: processes start and exit on their own.            *)
(***************************************************************************)
ProcSpawn(parent, cmdline) ==
    LET pid == Cardinality({ p \in Pids : procs[p].state # "none" }) + 1
    IN  /\ pid \in Pids
        /\ parent = InitPid \/ parent \in Running
        /\ procs' = [procs EXCEPT ![pid] = [state |-> "alive", parent |-> parent,
                                            creator |-> parent,
                                            cmdline |-> cmdline]]
        /\ UNCHANGED << sp, sup, outsideProc >>

\* A process exits; its children go to init.
ProcExit(p) ==
    /\ p \in Running
    /\ procs' = [q \in Pids |->
                    IF q = p THEN [procs[q] EXCEPT !.state = "dead"]
                    ELSE IF procs[q].parent = p
                    THEN [procs[q] EXCEPT !.parent = InitPid]
                    ELSE procs[q]]
    /\ UNCHANGED << sp, sup, outsideProc >>

(***************************************************************************)
(* ServerProcess.find / _post_init (process.py:20-69).                     *)
(***************************************************************************)
\* process.py:31-32: the processes the loop assigns to self.process.
PostInitMatches(name) ==
    { p \in Running : InList(name, procs[p].cmdline) /\ Children(p) # {} }

\* process.py:40-41: the else of a for loop without break runs whenever the
\* loop ends, so _post_init raises ProcessNotFound after every scan.
PostInitResult(name) == Raise("ProcessNotFound", "")

\* process.py:43-69: cls(name), then _post_init; the loop keeps the last
\* match in self.process.
Find(name) ==
    /\ CanCall
    /\ sp' = [name |-> name,
              process |-> IF PostInitMatches(name) = {} THEN NoProcess
                          ELSE MaxOf(PostInitMatches(name))]
    /\ SupFinish([IdleSup EXCEPT !.op = "find", !.name = name],
                 PostInitResult(name))
    /\ UNCHANGED << procs, outsideProc >>

(***************************************************************************)
(* checkServerRunning (process.py:126-146).                                *)
(***************************************************************************)
\* process.py:143-146.
ServerRunning(name) == \E p \in Running : InList(name, procs[p].cmdline)

CheckServerRunning(name) ==
    /\ CanCall
    /\ SupFinish([IdleSup EXCEPT !.op = "check", !.name = name],
                 Return(IF ServerRunning(name) THEN "True" ELSE "False"))
    /\ UNCHANGED << procs, sp, outsideProc >>

(***************************************************************************)
(* ServerProcess._terminate (process.py:84-100), in an executor thread     *)
(* while processes exit and start.                                         *)
(***************************************************************************)
\* process.py:85-91: the descendants are collected and every collected
\* process is sent terminate().  children() of a process that is gone
\* raises NoSuchProcess or returns nothing, by the version of psutil.
\* The handle is a ServerProcess whose _post_init has assigned self.process.
Terminate(raises) ==
    /\ CanCall
    /\ sp.process # NoProcess
    /\ IF sp.process \notin Running /\ raises
       THEN SupFinish([IdleSup EXCEPT !.op = "terminate", !.name = sp.name],
                      Raise("NoSuchProcess", ""))
       ELSE LET processes == (IF sp.process \in Running
                              THEN Descendants(sp.process) ELSE {})
                             \cup { sp.process }
            IN  sup' = [IdleSup EXCEPT !.pc = "t_wait", !.op = "terminate",
                                       !.name = sp.name,
                                       !.processes = processes,
                                       !.terminated = processes,
                                       !.seen = Started]
    /\ UNCHANGED << procs, sp, outsideProc >>

\* kill() called on every collected process.
ToKill_Everything(alive) == sup.processes

\* process.py:93: the processes kill() is called on.
ToKill(alive) == alive

\* process.py:92-97: the first wait_procs returns the processes that are
\* still alive; each of them is sent kill().
TerminateFirstWait ==
    /\ sup.pc = "t_wait"
    /\ LET alive == sup.processes \cap Running
       IN  sup' = [sup EXCEPT !.pc = "t_wait_kill", !.alive = alive,
                              !.first_alive = alive,
                              !.killed = ToKill(alive)]
    /\ UNCHANGED << procs, sp, outsideProc >>

\* _terminate that never raises.
TerminateResult_Silent(alive, name) == Return("None")

\* process.py:99-100: what _terminate ends with.
TerminateResult(alive, name) ==
    IF alive # {} THEN TerminationFailed(name) ELSE Return("None")

\* process.py:98-100: the second wait_procs.
TerminateSecondWait ==
    /\ sup.pc = "t_wait_kill"
    /\ LET alive == sup.processes \cap Running
       IN  sup' = [sup EXCEPT !.pc = "done", !.alive = alive,
                              !.result = TerminateResult(alive, sup.name)]
    /\ UNCHANGED << procs, sp, outsideProc >>

\* The caller takes the result.
SupReturn ==
    /\ sup.pc = "done"
    /\ sup' = IdleSup
    /\ UNCHANGED << procs, sp, outsideProc >>

(***************************************************************************)
(* The supervisor on a process table that changes under it.                *)
(***************************************************************************)
ProcOff ==
    /\ procs = [p \in Pids |-> NoProc]
    /\ sp = [name |-> << >>, process |-> NoProcess]
    /\ sup = IdleSup

(***************************************************************************)
(* The lifecycle operations (lifecycle.py) and the screen side channel     *)
(* (protocols/screen.py).  One call runs at a time; time passes and        *)
(* servers go down while it runs.                                          *)
(***************************************************************************)
MaxClock == 6

\* lifecycle.py:46: asyncio.sleep(5).
Grace == 5

\* lifecycle.py:41-44: the commands serverStop passes to sendCmds.
StopCommands ==
    << "title @a times 20 40 20",
       "title @a title {\"text\":\"STOPPING SERVER NOW\", \"bold\":true, \"italic\":true}",
       "broadcast Stopping now!",
       "save-all" >>

\* lifecycle.py:47.
StopCommand == "stop"

NotYet == 0 - 1

IdleCtl ==
    [pc |-> "idle", op |-> "none", server |-> "none", i |-> 1, wake |-> 0,
     calls |-> 0, spawned |-> FALSE, found |-> FALSE, servers |-> << >>,
     status |-> {}, failed |-> {}, result |-> Pending]

CtlFinish(rec, res) == ctl' = [rec EXCEPT !.pc = "done", !.result = res]

\* screen.py:21-23: a screen subprocess is started to stuff one command.
Stuff(cmd) ==
    screen' = Append(screen, [cmd |-> cmd, sent |-> now, exited |-> NotYet])

\* screen.py:24: the subprocess started last has exited.
Exited ==
    screen' = [screen EXCEPT ![Len(screen)].exited = now]

Tick ==
    /\ now < MaxClock
    /\ now' = now + 1
    /\ UNCHANGED << ctl, screen, up, outsideCtl >>

\* A server process goes away on its own.
ServerExits(server) ==
    /\ up[server]
    /\ up' = [up EXCEPT ![server] = FALSE]
    /\ UNCHANGED << ctl, now, screen, outsideCtl >>

\* lifecycle.py:10-27: the server is started in a detached screen; nothing
\* is looked at before the screen subprocess is created.
ServerStart(server) ==
    /\ ctl.pc = "idle"
    /\ up' = [up EXCEPT ![server] = TRUE]
    /\ CtlFinish([IdleCtl EXCEPT !.op = "start", !.server = server,
                                 !.spawned = TRUE],
                 Return("None"))
    /\ UNCHANGED << now, screen, outsideCtl >>

(***************************************************************************)
(* serverStop (lifecycle.py:30-47) and sendCmds (screen.py:7-24).          *)
(***************************************************************************)
ServerStopCall(server) ==
    /\ ctl.pc = "idle"
    /\ ctl' = [IdleCtl EXCEPT !.pc = "s_send", !.op = "stop", !.server = server]
    /\ screen' = << >>
    /\ UNCHANGED << now, up, outsideCtl >>

\* screen.py:19-23: the next command of the loop.
SendCmdsSpawn ==
    /\ ctl.pc = "s_send"
    /\ Stuff(StopCommands[ctl.i])
    /\ ctl' = [ctl EXCEPT !.pc = "s_wait"]
    /\ UNCHANGED << now, up, outsideCtl >>

\* asyncio.sleep returns without sleeping.
SleepUntil_NoSleep(t) == t

\* lifecycle.py:46: when the sleep that starts at t is over.
SleepUntil(t) == t + Grace

\* screen.py:24: await proc.wait(); after the last command sendCmds returns
\* and serverStop goes to sleep (lifecycle.py:46).
SendCmdsWait ==
    /\ ctl.pc = "s_wait"
    /\ Exited
    /\ ctl' = IF ctl.i < Len(StopCommands)
              THEN [ctl EXCEPT !.pc = "s_send", !.i = ctl.i + 1]
              ELSE [ctl EXCEPT !.pc = "s_sleep", !.wake = SleepUntil(now)]
    /\ UNCHANGED << now, up, outsideCtl >>

\* lifecycle.py:46-47: the sleep is over and sendCmd stuffs 'stop'.
SendCmd ==
    /\ ctl.pc = "s_sleep"
    /\ now >= ctl.wake
    /\ Stuff(StopCommand)
    /\ ctl' = [ctl EXCEPT !.pc = "s_stop"]
    /\ UNCHANGED << now, up, outsideCtl >>

\* lifecycle.py:47: await sendCmd(...) returns and so does serverStop.
ServerStopReturn ==
    /\ ctl.pc = "s_stop"
    /\ Exited
    /\ CtlFinish(ctl, Return("None"))
    /\ UNCHANGED << now, up, outsideCtl >>

(***************************************************************************)
(* serverTerminate (lifecycle.py:50-72).                                   *)
(***************************************************************************)
ServerTerminateCall(server) ==
    /\ ctl.pc = "idle"
    /\ ctl' = [IdleCtl EXCEPT !.pc = "k_exec", !.op = "terminate",
                              !.server = server]
    /\ UNCHANGED << now, screen, up, outsideCtl >>

\* termProc: the forced termination of the server's processes.  It returns
\* True when none of them is left, raises TerminationFailed when some
\* survive both signals and ProcessNotFound when there is no process.
TermProc(server, survives) ==
    IF ~up[server] THEN [res |-> Raise("ProcessNotFound", server), left |-> FALSE]
    ELSE IF survives THEN [res |-> Raise("TerminationFailed", server), left |-> TRUE]
    ELSE [res |-> Return("True"), left |-> FALSE]

\* serverTerminate that reports a failure as a result.
TerminateOutcome_Swallows(res) ==
    IF res.kind = "raise" THEN Return("False") ELSE res

\* lifecycle.py:67-72: TerminationFailed is raised again, any other
\* exception propagates, and the value of termProc is returned.
TerminateOutcome(res) == res

\* lifecycle.py:65-72: termProc runs once in the executor.
ServerTerminateRun(survives) ==
    LET r == TermProc(ctl.server, survives)
    IN  /\ ctl.pc = "k_exec"
        /\ up' = [up EXCEPT ![ctl.server] = r.left]
        /\ CtlFinish([ctl EXCEPT !.calls = ctl.calls + 1],
                     TerminateOutcome(r.res))
        /\ UNCHANGED << now, screen, outsideCtl >>

(***************************************************************************)
(* serverStatus (lifecycle.py:75-104).                                     *)
(***************************************************************************)
\* spiffy-mc/utils/discovery.py:31-39: the server directories found under
\* an existing path, in the order of iterdir.
DiscoveredServers ==
    { << >>, << "alpha" >>, << "alpha", "beta" >>, << "beta", "alpha" >> }

\* isUp: whether the server's process is running; the scan can fail.
IsUp(server, fails) ==
    IF fails THEN Raise("ScanFailed", server)
    ELSE Return(IF up[server] THEN "True" ELSE "False")

\* lifecycle.py:92 and discovery.py:27-29: a missing path raises
\* SpiffyPathNotFound; an empty list is returned as an empty mapping.
ServerStatusCall(exists, servers) ==
    /\ ctl.pc = "idle"
    /\ LET rec == [IdleCtl EXCEPT !.op = "status", !.found = exists,
                                  !.servers = IF exists THEN servers ELSE << >>]
       IN  IF ~exists THEN CtlFinish(rec, Raise("SpiffyPathNotFound", ""))
           ELSE IF servers = << >> THEN CtlFinish(rec, Return("dict"))
           ELSE ctl' = [rec EXCEPT !.pc = "q_loop"]
    /\ UNCHANGED << now, screen, up, outsideCtl >>

\* lifecycle.py:94-96 and 98-104: one turn of the loop of _getStatus; an
\* exception of isUp leaves _getStatus and serverStatus, and after the
\* last server the mapping is returned.
GetStatus(fails) ==
    LET server == ctl.servers[ctl.i]
        r == IsUp(server, fails)
    IN  /\ ctl.pc = "q_loop"
        /\ IF r.kind = "raise"
           THEN CtlFinish([ctl EXCEPT !.failed = ctl.failed \cup {server}], r)
           ELSE LET rec == [ctl EXCEPT
                              !.status = ctl.status \cup
                                         { << server, r.value = "True" >> },
                              !.i = ctl.i + 1]
                IN  IF ctl.i = Len(ctl.servers)
                    THEN CtlFinish(rec, Return("dict"))
                    ELSE ctl' = rec
        /\ UNCHANGED << now, screen, up, outsideCtl >>

\* The caller takes the result.
CtlReturn ==
    /\ ctl.pc = "done"
    /\ ctl' = IdleCtl
    /\ screen' = << >>
    /\ UNCHANGED << now, up, outsideCtl >>

(***************************************************************************)
(* get_rcon_spec (discovery.py:231-283).  A line of server.properties is   *)
(* a sequence of tokens: a key, '=' signs, values and the line end.        *)
(***************************************************************************)
MaxLines == 4

Eq == "="

Eol == "\n"

RconKeys == { "enable-rcon", "rcon.port", "rcon.password" }

\* The lines a server.properties file is made of here.
PropertyLines ==
    { << "enable-rcon", Eq, "true", Eol >>, << "enable-rcon", Eq, "false", Eol >>,
      << "enable-rcon", Eq, Eol >>,
      << "rcon.port", Eq, "25575", Eol >>, << "rcon.port", Eq, Eol >>,
      << "rcon.port", Eol >>,
      << "rcon.password", Eq, "pw", Eol >>, << "rcon.password", Eq, Eol >>,
      << "motd", Eq, "x", Eol >> }

PropertyFiles == UNION { [1..n -> PropertyLines] : n \in 0..MaxLines }

\* str.rstrip(): the line without its trailing line ends.
RECURSIVE RStrip(_)
RStrip(line) ==
    IF line # << >> /\ line[Len(line)] = Eol
    THEN RStrip(SubSeq(line, 1, Len(line) - 1))
    ELSE line

\* str.split('='): the parts between the '=' signs.
RECURSIVE Split(_)
Split(line) ==
    IF \E i \in 1..Len(line) : line[i] = Eq
    THEN LET i == CHOOSE i \in 1..Len(line) :
                    line[i] = Eq /\ \A j \in 1..(i - 1) : line[j] # Eq
         IN  << SubSeq(line, 1, i - 1) >> \o Split(SubSeq(line, i + 1, Len(line)))
    ELSE << line >>

\* discovery.py:265: line.startswith('rcon.') or line.startswith('enable-rcon').
IsRconLine(line) == line # << >> /\ line[1] \in RconKeys

\* discovery.py:262-266: the split lines that are kept.
RECURSIVE RconLines(_)
RconLines(file) ==
    IF file = << >> THEN << >>
    ELSE IF IsRconLine(file[1])
    THEN << Split(RStrip(file[1])) >> \o RconLines(SubSeq(file, 2, Len(file)))
    ELSE RconLines(SubSeq(file, 2, Len(file)))

\* discovery.py:269: {l[0]: l[1] for l in lines}; a later line replaces an
\* earlier one with the same key.
HasKey(lines, key) == \E i \in 1..Len(lines) : lines[i][1] = << key >>

Lookup(lines, key) ==
    LET i == CHOOSE i \in 1..Len(lines) :
                /\ lines[i][1] = << key >>
                /\ \A j \in (i + 1)..Len(lines) : lines[j][1] # << key >>
    IN  lines[i][2]

\* The login details are looked at before the flag.
CheckInfo_DetailsFirst(lines) ==
    IF ~HasKey(lines, "enable-rcon") THEN Raise("KeyError", "enable-rcon")
    ELSE IF ~HasKey(lines, "rcon.port") THEN Raise("KeyError", "rcon.port")
    ELSE IF ~HasKey(lines, "rcon.password") THEN Raise("KeyError", "rcon.password")
    ELSE IF Lookup(lines, "rcon.port") = << >>
            \/ Lookup(lines, "rcon.password") = << >>
    THEN Raise("RconLoginDetailsMissing", "")
    ELSE IF Lookup(lines, "enable-rcon") = << >> THEN Raise("RconSettingsError", "")
    ELSE IF Lookup(lines, "enable-rcon") = << "false" >> THEN Raise("RconNotEnabled", "")
    ELSE Return("dict")

\* discovery.py:274-283: the checks on the extracted mapping.
CheckInfo(lines) ==
    IF ~HasKey(lines, "enable-rcon") THEN Raise("KeyError", "enable-rcon")
    ELSE IF Lookup(lines, "enable-rcon") = << >> THEN Raise("RconSettingsError", "")
    ELSE IF Lookup(lines, "enable-rcon") = << "false" >> THEN Raise("RconNotEnabled", "")
    ELSE IF ~HasKey(lines, "rcon.port") THEN Raise("KeyError", "rcon.port")
    ELSE IF Lookup(lines, "rcon.port") = << >> THEN Raise("RconLoginDetailsMissing", "")
    ELSE IF ~HasKey(lines, "rcon.password") THEN Raise("KeyError", "rcon.password")
    ELSE IF Lookup(lines, "rcon.password") = << >>
    THEN Raise("RconLoginDetailsMissing", "")
    ELSE Return("dict")

\* discovery.py:255-283.
get_rcon_spec(exists, file) ==
    LET lines == RconLines(file)
    IN  IF ~exists THEN Raise("ServerPropertiesMissing", "")
        ELSE IF Len(lines) # 3 THEN Raise("RconSettingsError", "")
        ELSE IF \E i \in 1..Len(lines) : Len(lines[i]) < 2
        THEN Raise("IndexError", "")
        ELSE CheckInfo(lines)

GetRconSpec ==
    /\ info = Pending
    /\ info' = get_rcon_spec(props.exists, props.file)
    /\ UNCHANGED << props, outsideProps >>

PropsOff ==
    /\ props = [exists |-> FALSE, file |-> << >>]
    /\ info = Pending

(***************************************************************************)
(* SizedDict (collections.py:61-93): an OrderedDict as the sequence of     *)
(* its items, oldest first.                                                *)
(***************************************************************************)
MaxSize == 3

\* One key more than the largest dict can hold.
SizedKeys == 1..(MaxSize + 1)

NoKey == 0

SizedValues == { "x", "y" }

KeysOf(items) == { items[i].key : i \in 1..Len(items) }

IndexOf(items, key) == CHOOSE i \in 1..Len(items) : items[i].key = key

Without(items, key) ==
    LET i == IndexOf(items, key)
    IN  SubSeq(items, 1, i - 1) \o SubSeq(items, i + 1, Len(items))

\* OrderedDict.__setitem__: a new key goes to the end, an existing key
\* keeps its place and gets the value.
SetItem(items, key, value) ==
    IF key \in KeysOf(items)
    THEN [items EXCEPT ![IndexOf(items, key)].value = value]
    ELSE Append(items, [key |-> key, value |-> value])

\* move_to_end left out: an updated key keeps its place.
MoveToEnd_Stays(items, key) == items

\* OrderedDict.move_to_end(key).
MoveToEnd(items, key) ==
    Without(items, key) \o << items[IndexOf(items, key)] >>

\* collections.py:80-83: popitem(last=False) while the dict is too long.
RECURSIVE Prune(_, _)
Prune(items, max_size) ==
    IF Len(items) > max_size THEN Prune(Tail(items), max_size) ELSE items

\* collections.py:68-72: SizedDict(max_size), empty.
NewSizedDict(max_size) ==
    [max_size |-> max_size, items |-> << >>, key |-> NoKey, value |-> "",
     popped |-> 0]

\* collections.py:74-78: d[key] = value.
SizedSetItem(key, value) ==
    LET set == MoveToEnd(SetItem(sized.items, key, value), key)
        pruned == Prune(set, sized.max_size)
    IN  /\ sized.max_size >= 1
        /\ sized' = [sized EXCEPT !.items = pruned, !.key = key,
                                  !.value = value,
                                  !.popped = Len(set) - Len(pruned)]
        /\ UNCHANGED << outsideSized >>

SizedOff == sized = NewSizedDict(0)

(***************************************************************************)
(* SimpleTTLDict (collections.py:15-58): the items, oldest first, each     *)
(* with its value and its date, and the clock time.time() reads.           *)
(***************************************************************************)
MaxTime == 4

MaxTtl == 1

TtlKeys == { "a", "b" }

TtlValues == { "x", "y" }

\* The comparison turned round: nothing ever counts as expired.
Expired_Never(now_, date, ttl_seconds) == date - now_ > ttl_seconds

\* collections.py:33.
Expired(now_, date, ttl_seconds) == now_ - date > ttl_seconds

\* collections.py:28-38: items are popped from the front while they are
\* expired; the first one that is not is put back in front.
RECURSIVE Expire(_, _, _)
Expire(items, now_, ttl_seconds) ==
    IF items = << >> THEN << >>
    ELSE LET first == Head(items)
             rest == Tail(items)
         IN  IF Expired(now_, first.date, ttl_seconds)
             THEN Expire(rest, now_, ttl_seconds)
             ELSE << first >> \o rest

\* collections.py:22-26: SimpleTTLDict(ttl_seconds), empty.
NewTTLDict(ttl_seconds) ==
    [ttl |-> ttl_seconds, items |-> << >>, clock |-> 0, op |-> "new",
     key |-> "", expired_at |-> 0, got |-> ""]

\* OrderedDict.__setitem__ of (value, date).
SetDated(items, key, value, date) ==
    IF key \in KeysOf(items)
    THEN [items EXCEPT ![IndexOf(items, key)] =
                            [key |-> key, value |-> value, date |-> date]]
    ELSE Append(items, [key |-> key, value |-> value, date |-> date])

\* collections.py:40-47: d[key] = value; time.time() is read at t1 by
\* _expire and again at t2 for the date of the item.
TtlSetItem(key, value, t1, t2) ==
    /\ ttl.op # "off"
    /\ ttl.clock <= t1 /\ t1 <= t2
    /\ ttl' = [ttl EXCEPT
                !.items = MoveToEnd(SetDated(Expire(ttl.items, t1, ttl.ttl),
                                             key, value, t2), key),
                !.clock = t2, !.op = "set", !.key = key, !.expired_at = t1,
                !.got = ""]
    /\ UNCHANGED << outsideTtl >>

\* collections.py:49-51.
TtlGetValue(key) ==
    /\ ttl.op # "off"
    /\ ttl' = [ttl EXCEPT !.op = "getvalue", !.key = key,
                          !.got = IF key \in KeysOf(ttl.items)
                                  THEN ttl.items[IndexOf(ttl.items, key)].value
                                  ELSE "KeyError"]
    /\ UNCHANGED << outsideTtl >>

\* collections.py:53-58: the newest value the predicate holds of, or None.
TtlFind(predicate) ==
    LET hits == { i \in 1..Len(ttl.items) : ttl.items[i].value \in predicate }
    IN  /\ ttl.op # "off"
        /\ ttl' = [ttl EXCEPT !.op = "find", !.key = "",
                              !.got = IF hits = {} THEN "None"
                                      ELSE ttl.items[CHOOSE i \in hits :
                                              \A j \in hits : j <= i].value]
        /\ UNCHANGED << outsideTtl >>

TtlOff == ttl = [NewTTLDict(0) EXCEPT !.op = "off"]

(***************************************************************************)
(* discover_servers and find_server (discovery.py:28-105) on a parent      *)
(* directory; a path is the sequence of its components below the parent.   *)
(***************************************************************************)
DirNames == { "alpha", "beta" }

Untracked == 0 - 1

Disabled == 0

Enabled == 1

\* What the parent directory can hold under a name.
DirEntries ==
    { [kind |-> "absent", enabled |-> FALSE, disabled |-> FALSE],
      [kind |-> "file", enabled |-> FALSE, disabled |-> FALSE] }
    \cup [kind : {"dir"}, enabled : BOOLEAN, disabled : BOOLEAN]

\* discovery.py:57, 61, 97, 100: d / 'charcoal_enabled' and the like.
Marker(name, marker) == << name, marker >>

\* discovery.py:95: serverdir / name.
BasePath(name) == << name >>

NoListing ==
    [op |-> "none", name |-> "", enabled |-> {}, disabled |-> {},
     path |-> << >>, status |-> 0, error |-> ""]

\* discovery.py:55-60: the paths appended to servers['enabled'].
ListedEnabled ==
    { Marker(d, "charcoal_enabled") :
        d \in { n \in DirNames : dirs.entries[n].kind = "dir"
                                 /\ dirs.entries[n].enabled } }

\* discovery.py:61-64: the paths appended to servers['disabled'].
ListedDisabled ==
    { Marker(d, "charcoal_disabled") :
        d \in { n \in DirNames : /\ dirs.entries[n].kind = "dir"
                                 /\ ~dirs.entries[n].enabled
                                 /\ dirs.entries[n].disabled } }

\* discovery.py:49-66.
discover_servers ==
    /\ listing' = IF ~dirs.exists
                  THEN [NoListing EXCEPT !.op = "discover",
                                         !.error = "ParentDirMissing"]
                  ELSE [NoListing EXCEPT !.op = "discover",
                                         !.enabled = ListedEnabled,
                                         !.disabled = ListedDisabled]
    /\ UNCHANGED << dirs, outsideDirs >>

\* discovery.py:91-105.
find_server(name) ==
    LET e == dirs.entries[name]
        found == [NoListing EXCEPT !.op = "find", !.name = name,
                                   !.path = BasePath(name)]
    IN  /\ listing' =
            IF ~dirs.exists
            THEN [NoListing EXCEPT !.op = "find", !.name = name,
                                   !.error = "ParentDirMissing"]
            ELSE IF e.kind = "absent"
            THEN [NoListing EXCEPT !.op = "find", !.name = name,
                                   !.error = "ServerNotFound"]
            ELSE IF e.enabled THEN [found EXCEPT !.status = Enabled]
            ELSE IF e.disabled THEN [found EXCEPT !.status = Disabled]
            ELSE [found EXCEPT !.status = Untracked]
        /\ UNCHANGED << dirs, outsideDirs >>

DirsOff ==
    /\ dirs = [exists |-> FALSE,
               entries |-> [n \in DirNames |->
                              [kind |-> "absent", enabled |-> FALSE,
                               disabled |-> FALSE]]]
    /\ listing = NoListing

(***************************************************************************)
(* Store (store.py:10-101): a mapping kept in memory and in a .json file.  *)
(* A mapping is the sequence of its items in insertion order; a file is    *)
(* the sequence of the tokens written to it.                               *)
(***************************************************************************)
MaxEntries == 2

\* Keys callers can pass to __setitem__: the strings 'a' and '1', the int 1.
StoreKeys ==
    { [type |-> "str", text |-> "a"], [type |-> "str", text |-> "1"],
      [type |-> "int", text |-> "1"] }

\* Values: the string 'v' and the empty tuple.
StoreValues ==
    { [type |-> "str", text |-> "v"], [type |-> "tuple", text |-> "()"] }

NoFile == [exists |-> FALSE, text |-> << >>]

\* store.py:83 names the file json.dump writes to.
\* Variant that names the persistent file itself.
TmpFile_InPlace == "json"

\* store.py:83: tmpfile = self.file.with_suffix('.tmp')
TmpFile == "tmp"

\* dict.__setitem__: a key that is present keeps its place.
StoreSet(m, key, value) ==
    IF \E i \in 1..Len(m) : m[i].key = key
    THEN [i \in 1..Len(m) |->
            IF m[i].key = key THEN [key |-> key, value |-> value] ELSE m[i]]
    ELSE Append(m, [key |-> key, value |-> value])

\* json encoding of a value: a tuple is written as a list.
DumpValue(value) == IF value.type \in {"tuple", "list"} THEN "[]" ELSE value.text

\* json decoding of a value.
LoadValue(token) ==
    IF token = "[]" THEN [type |-> "list", text |-> "[]"]
    ELSE [type |-> "str", text |-> token]

\* store.py:85: json.dump(self.store.copy(), tmp), as the tokens it writes;
\* a key that is not a string is written as the string of its value.
RECURSIVE DumpItems(_, _)
DumpItems(m, i) ==
    IF i > Len(m) THEN << >>
    ELSE (IF i > 1 THEN << "," >> ELSE << >>)
         \o << m[i].key.text, ":", DumpValue(m[i].value) >>
         \o DumpItems(m, i + 1)

Dumps(m) == << "{" >> \o DumpItems(m, 1) \o << "}" >>

\* The text is one complete json object.
IsJson(text) ==
    /\ Len(text) >= 2
    /\ text[1] = "{" /\ text[Len(text)] = "}"
    /\ Len(text) = 2 \/ (Len(text) - 1) % 4 = 0
    /\ \A i \in 2..(Len(text) - 1) :
        /\ (i % 4 = 3) <=> text[i] = ":"
        /\ (i % 4 = 1) <=> text[i] = ","
        /\ text[i] \notin {"{", "}"}

\* store.py:71: json.load builds the dict item by item; every key is a str.
RECURSIVE LoadItems(_, _, _)
LoadItems(text, i, m) ==
    IF i + 2 > Len(text) - 1 THEN m
    ELSE LoadItems(text, i + 4,
                   StoreSet(m, [type |-> "str", text |-> text[i]],
                            LoadValue(text[i + 2])))

Loads(text) == LoadItems(text, 2, << >>)

\* Store(file) with no boot store and no file yet: load() gives {}.
\* The locals of save are gone once it is over.
Forget(st) == [st EXCEPT !.copy = << >>, !.written = 0, !.prev = NoFile]

NewStore ==
    [pc |-> "idle", op |-> "init", mem |-> << >>,
     files |-> [f \in {"json", "tmp"} |-> NoFile],
     copy |-> << >>, written |-> 0, prev |-> NoFile,
     has_saved |-> FALSE, saved |-> << >>, error |-> ""]

StoreIdle == store.pc \in {"idle", "done", "interrupted"}

\* store.py:97-98.
StoreSetItem(key, value) ==
    /\ StoreIdle
    /\ Len(StoreSet(store.mem, key, value)) <= MaxEntries
    /\ store' = [Forget(store) EXCEPT !.pc = "idle", !.op = "setitem",
                                      !.mem = StoreSet(store.mem, key, value),
                                      !.error = ""]
    /\ UNCHANGED outsideStore

\* store.py:48-79: the file exists after a save; json.load replaces the
\* mapping in memory or raises JSONDecodeError.
StoreLoad ==
    /\ StoreIdle
    /\ store' =
        IF ~store.files["json"].exists
        THEN [Forget(store) EXCEPT !.pc = "idle", !.op = "load",
                                   !.mem = << >>, !.error = ""]
        ELSE IF IsJson(store.files["json"].text)
        THEN [Forget(store) EXCEPT !.pc = "idle", !.op = "load",
                                   !.mem = Loads(store.files["json"].text),
                                   !.error = ""]
        ELSE [Forget(store) EXCEPT !.pc = "idle", !.op = "load",
                                   !.error = "JSONDecodeError"]
    /\ UNCHANGED outsideStore

\* store.py:81-84: mkdir, then the file of the dump is opened for writing,
\* which creates or empties it; the copy of the mapping is taken.
SaveOpen ==
    /\ StoreIdle
    /\ store' = [store EXCEPT !.pc = "s_write", !.op = "save",
                              !.files[TmpFile] = [exists |-> TRUE, text |-> << >>],
                              !.copy = Dumps(store.mem), !.written = 0,
                              !.prev = store.files["json"], !.error = ""]
    /\ UNCHANGED outsideStore

\* store.py:85: json.dump writes the next piece; after the last piece the
\* with block closes the file.
SaveWrite ==
    /\ store.pc = "s_write"
    /\ store.written < Len(store.copy)
    /\ store' = [store EXCEPT
                    !.files[TmpFile].text = Append(@, store.copy[store.written + 1]),
                    !.written = @ + 1,
                    !.pc = IF store.written + 1 = Len(store.copy)
                           THEN "s_replace" ELSE "s_write"]
    /\ UNCHANGED outsideStore

\* store.py:86: tmpfile.replace(self.file) renames in one step.
SaveReplace ==
    /\ store.pc = "s_replace"
    /\ store' = [store EXCEPT
                    !.files = [f \in {"json", "tmp"} |->
                                IF f = "json" THEN store.files[TmpFile]
                                ELSE IF f = TmpFile THEN NoFile
                                ELSE store.files[f]],
                    !.pc = "done", !.has_saved = TRUE, !.saved = store.mem]
    /\ UNCHANGED outsideStore

\* The save is interrupted where it stands (an exception in json.dump, a
\* signal, the end of the process); the files stay as they are.
SaveInterrupted ==
    /\ store.pc \in {"s_write", "s_replace"}
    /\ store' = [store EXCEPT !.pc = "interrupted", !.error = "interrupted"]
    /\ UNCHANGED outsideStore

StoreOff == store = [NewStore EXCEPT !.op = "off"]

LibOff == PropsOff /\ SizedOff /\ TtlOff /\ DirsOff /\ StoreOff

(***************************************************************************)
(* A second task on the same event loop calls serverStart and              *)
(* serverTerminate while the call of the first is suspended at an await.   *)
(***************************************************************************)
\* lifecycle.py:21: serverStart awaits get_invocation.
OtherStartCall(server) ==
    /\ ctl2.pc = "idle"
    /\ ctl2' = [IdleCtl EXCEPT !.pc = "o_spawn", !.op = "start",
                               !.server = server]
    /\ UNCHANGED << ctl, now, screen, up, outsideOther >>

\* lifecycle.py:23-27: the screen subprocess is created and awaited.
OtherStartSpawn ==
    /\ ctl2.pc = "o_spawn"
    /\ up' = [up EXCEPT ![ctl2.server] = TRUE]
    /\ ctl2' = [ctl2 EXCEPT !.pc = "done", !.spawned = TRUE,
                            !.result = Return("None")]
    /\ UNCHANGED << ctl, now, screen, outsideOther >>

\* lifecycle.py:65-68: serverTerminate hands termProc to the executor.
OtherTerminateCall(server) ==
    /\ ctl2.pc = "idle"
    /\ ctl2' = [IdleCtl EXCEPT !.pc = "k_exec", !.op = "terminate",
                               !.server = server]
    /\ UNCHANGED << ctl, now, screen, up, outsideOther >>

\* lifecycle.py:67-72.
OtherTerminateRun(survives) ==
    LET r == TermProc(ctl2.server, survives)
    IN  /\ ctl2.pc = "k_exec"
        /\ up' = [up EXCEPT ![ctl2.server] = r.left]
        /\ ctl2' = [ctl2 EXCEPT !.pc = "done", !.calls = ctl2.calls + 1,
                                !.result = TerminateOutcome(r.res)]
        /\ UNCHANGED << ctl, now, screen, outsideOther >>

CtlOff ==
    /\ ctl = IdleCtl
    /\ now = 0
    /\ screen = << >>
    /\ up = [s \in Servers |-> FALSE]
    /\ ctl2 = IdleCtl
    /\ LibOff

(***************************************************************************)
(* Specifications.                                                         *)
(***************************************************************************)
SessionInit ==
    /\ connections = [s \in Servers |-> NoConn]
    /\ writers = [c \in Conns |-> "unopened"]
    /\ peer = [c \in Conns |-> "none"]
    /\ task = [t \in Tasks |-> IdleTask]

CodecOff ==
    /\ c_pc = "off"
    /\ c_pkt = NoPacket
    /\ c_frame = <<>>
    /\ c_buf = <<>>
    /\ c_dec = NotDecoded

Init == SessionInit /\ CodecOff /\ ProcOff /\ CtlOff

TaskNext(t) ==
    \/ \E server \in Servers : LoginCall(t, server)
    \/ \E has_info \in BOOLEAN, r_id \in RandomIds : LoginGotInfo(t, has_info, r_id)
    \/ \E connected \in BOOLEAN : LoginOpened(t, connected)
    \/ \E stream \in Streams(task[t].r_id) :
         \E nread \in ReadSizes(stream) : LoginReadPrefix(t, stream, nread)
    \/ LoginReadBody(t)
    \/ LoginOldClosed(t)
    \/ \E con \in Conns, r_id \in RandomIds : CommandCall(t, con, r_id)
    \/ \E stream \in Streams(task[t].r_id) :
         \E nread \in ReadSizes(stream) : CommandReadPrefix(t, stream, nread)
    \/ CommandReadBody(t)
    \/ TaskReturn(t)

\* One caller: every call returns before the next call is made.
Next == \E t \in SeqTasks : TaskNext(t)

Spec == Init /\ [][Next]_vars

CodecInit ==
    /\ SessionInit
    /\ ProcOff
    /\ CtlOff
    /\ c_frame = <<>>
    /\ c_dec = NotDecoded
    /\ \/ c_pc = "new" /\ c_pkt \in CodecPackets /\ c_buf = <<>>
       \/ c_pc = "raw" /\ c_pkt = NoPacket /\ c_buf \in RawBuffers

CodecNext == CodecEncode \/ CodecDecodeFrame \/ CodecDecodeRaw

CodecSpec == CodecInit /\ [][CodecNext]_vars

ProcInit == SessionInit /\ CodecOff /\ ProcOff /\ CtlOff

ProcNext ==
    \/ \E parent \in {InitPid} \cup Pids, cmdline \in CmdLines : ProcSpawn(parent, cmdline)
    \/ \E p \in Pids : ProcExit(p)
    \/ \E name \in Names : Find(name)
    \/ \E name \in Names : CheckServerRunning(name)
    \/ \E raises \in BOOLEAN : Terminate(raises)
    \/ TerminateFirstWait
    \/ TerminateSecondWait
    \/ SupReturn

ProcSpec == ProcInit /\ [][ProcNext]_vars

(***************************************************************************)
(* Two callers on one event loop: the coroutines interleave at their       *)
(* awaits.  The server is reachable and answers every packet with its      *)
(* echo, so that only the interleaving varies.                             *)
(***************************************************************************)
\* rcon.py:22: the id each caller's packet has drawn.
IdOf(t) == IF t = "t1" THEN MinRandomId ELSE MaxRandomId

\* The response of a server that accepts the packet.
Accepted(r_id) == Encode(Packet(<< 111, 107 >>, RESPONSE, r_id))

ConcTaskNext(t) ==
    \/ \E server \in Servers : LoginCall(t, server)
    \/ LoginGotInfo(t, TRUE, IdOf(t))
    \/ LoginOpened(t, TRUE)
    \/ LoginReadPrefix(t, Accepted(task[t].r_id), 4)
    \/ LoginReadBody(t)
    \/ LoginOldClosed(t)
    \/ \E con \in Conns : CommandCall(t, con, IdOf(t))
    \/ CommandReadPrefix(t, Accepted(task[t].r_id), 4)
    \/ CommandReadBody(t)
    \/ TaskReturn(t)

ConcNext == \E t \in Tasks : ConcTaskNext(t)

ConcSpec == Init /\ [][ConcNext]_vars

(***************************************************************************)
(* One caller and a remote end that may stop sending without closing.      *)
(***************************************************************************)
\* rcon.py:63, 65, 95, 97: reader.read and reader.readexactly are awaited
\* without a timeout (no asyncio.wait_for in rcon.py); while the remote
\* sends nothing and keeps the connection open the coroutine stays
\* suspended at the await.
RemoteSilent(t) ==
    /\ task[t].pc \in {"l_read", "l_body", "c_read", "c_body"}
    /\ writers[task[t].con] = "open"
    /\ SetTask(t, [task[t] EXCEPT !.pc = "waiting"])
    /\ UNCHANGED << connections, writers, peer, outsideSession >>

WaitTaskNext(t) ==
    \/ \E server \in Servers : LoginCall(t, server)
    \/ LoginGotInfo(t, TRUE, IdOf(t))
    \/ \E connected \in BOOLEAN : LoginOpened(t, connected)
    \/ LoginReadPrefix(t, Accepted(task[t].r_id), 4)
    \/ LoginReadBody(t)
    \/ LoginOldClosed(t)
    \/ \E con \in Conns : CommandCall(t, con, IdOf(t))
    \/ CommandReadPrefix(t, Accepted(task[t].r_id), 4)
    \/ CommandReadBody(t)
    \/ TaskReturn(t)
    \/ RemoteSilent(t)

WaitNext == \E t \in SeqTasks : WaitTaskNext(t)

\* The event loop runs a coroutine whenever what it awaits is there.
WaitSpec == Init /\ [][WaitNext]_vars /\ WF_vars(WaitNext)

CtlInit ==
    /\ SessionInit
    /\ CodecOff
    /\ ProcOff
    /\ ctl = IdleCtl
    /\ now = 0
    /\ screen = << >>
    /\ up \in [Servers -> BOOLEAN]
    /\ ctl2 = IdleCtl
    /\ LibOff

CtlNext ==
    \/ Tick
    \/ \E s \in Servers : ServerExits(s)
    \/ \E s \in Servers : ServerStart(s)
    \/ \E s \in Servers : ServerStopCall(s)
    \/ SendCmdsSpawn
    \/ SendCmdsWait
    \/ SendCmd
    \/ ServerStopReturn
    \/ \E s \in Servers : ServerTerminateCall(s)
    \/ \E survives \in BOOLEAN : ServerTerminateRun(survives)
    \/ \E exists \in BOOLEAN, servers \in DiscoveredServers :
            ServerStatusCall(exists, servers)
    \/ \E fails \in BOOLEAN : GetStatus(fails)
    \/ CtlReturn

CtlSpec == CtlInit /\ [][CtlNext]_vars

\* Two callers of the lifecycle operations, one call each: a serverStop
\* and, at any of its awaits, a serverStart or a serverTerminate.
LifeNext ==
    \/ Tick
    \/ \E s \in Servers : ServerStopCall(s)
    \/ SendCmdsSpawn
    \/ SendCmdsWait
    \/ SendCmd
    \/ ServerStopReturn
    \/ \E s \in Servers : OtherStartCall(s)
    \/ OtherStartSpawn
    \/ \E s \in Servers : OtherTerminateCall(s)
    \/ \E survives \in BOOLEAN : OtherTerminateRun(survives)

LifeSpec == CtlInit /\ [][LifeNext]_vars

ProgramOff == SessionInit /\ CodecOff /\ ProcOff /\ ctl = IdleCtl /\ now = 0
              /\ screen = << >> /\ up = [s \in Servers |-> FALSE]
              /\ ctl2 = IdleCtl

SizedInit ==
    /\ ProgramOff
    /\ PropsOff /\ TtlOff /\ DirsOff /\ StoreOff
    /\ sized \in { NewSizedDict(n) : n \in 1..MaxSize }

SizedNext == \E key \in SizedKeys, value \in SizedValues : SizedSetItem(key, value)

SizedSpec == SizedInit /\ [][SizedNext]_vars

TtlInit ==
    /\ ProgramOff
    /\ PropsOff /\ SizedOff /\ DirsOff /\ StoreOff
    /\ ttl \in { NewTTLDict(n) : n \in 0..MaxTtl }

TtlNext ==
    \/ \E key \in TtlKeys, value \in TtlValues, t1 \in 0..MaxTime, t2 \in 0..MaxTime :
            TtlSetItem(key, value, t1, t2)
    \/ \E key \in TtlKeys : TtlGetValue(key)
    \/ \E predicate \in SUBSET TtlValues : TtlFind(predicate)

TtlSpec == TtlInit /\ [][TtlNext]_vars

DirsInit ==
    /\ ProgramOff
    /\ PropsOff /\ SizedOff /\ TtlOff /\ StoreOff
    /\ dirs \in [exists : {TRUE}, entries : [DirNames -> DirEntries]]
                \cup { [exists |-> FALSE,
                        entries |-> [n \in DirNames |->
                                       [kind |-> "absent", enabled |-> FALSE,
                                        disabled |-> FALSE]]] }
    /\ listing = NoListing

DirsNext == discover_servers \/ \E name \in DirNames : find_server(name)

DirsSpec == DirsInit /\ [][DirsNext]_vars

StoreInit ==
    /\ ProgramOff
    /\ PropsOff /\ SizedOff /\ TtlOff /\ DirsOff
    /\ store = NewStore

StoreNext ==
    \/ \E key \in StoreKeys, value \in StoreValues : StoreSetItem(key, value)
    \/ StoreLoad
    \/ SaveOpen
    \/ SaveWrite
    \/ SaveReplace
    \/ SaveInterrupted

StoreSpec == StoreInit /\ [][StoreNext]_vars

PropsInit ==
    /\ ProgramOff
    /\ SizedOff /\ TtlOff /\ DirsOff /\ StoreOff
    /\ props \in [exists : BOOLEAN, file : PropertyFiles]
    /\ info = Pending

PropsNext == GetRconSpec

PropsSpec == PropsInit /\ [][PropsNext]_vars

(***************************************************************************)
(* Properties of the codec, under CodecSpec.                               *)
(***************************************************************************)
FirstInt(b) == Unpack(Slice(b, 0, 4))

\* Number of bytes UTF-8 needs for a text, by the range of each code point.
RECURSIVE Utf8ByteLength(_)
Utf8ByteLength(text) ==
    IF text = <<>> THEN 0
    ELSE (IF Head(text) < 128 THEN 1
          ELSE IF Head(text) < 2048 THEN 2
          ELSE IF Head(text) < 65536 THEN 3 ELSE 4)
         + Utf8ByteLength(Tail(text))

\* C1: decoding the body of encode() (the frame without its 4-byte length
\* prefix) gives back the payload, the type and the id of the packet, for
\* every id other than -1.
C1_RoundTrip ==
    (c_pc = "decoded" /\ c_pkt.r_id # AUTH_FAIL) => c_dec = c_pkt

C1_Witness ==
    /\ c_pc = "decoded"
    /\ c_pkt = Packet(<< 233, 128512 >>, LOGIN, -2)
    /\ c_dec = c_pkt

\* C2 as stated: decode signals AuthFailure for every buffer whose first 4
\* bytes are -1, however many bytes follow, none included.
C2_AuthFailureAnyLength ==
    (c_pc = "raw_decoded" /\ FirstInt(c_buf) = AUTH_FAIL)
        => c_dec.kind = "AuthFailure"

\* C2, amended: decode signals AuthFailure for every buffer of at least 8
\* bytes (id and type) whose first 4 bytes are -1, whatever the bytes after
\* the first 4 are; a shorter buffer raises struct.error.
C2_AuthFailure ==
    (c_pc \in {"decoded", "raw_decoded"} /\ FirstInt(c_buf) = AUTH_FAIL)
        => IF Len(c_buf) >= 8
           THEN c_dec.kind = "AuthFailure"
           ELSE c_dec.kind = "struct.error"

C2_Witness ==
    /\ c_pc = "raw_decoded"
    /\ c_buf = Pack(AUTH_FAIL) \o << 255, 255, 255, 255, 255, 255, 255 >>
    /\ c_dec.kind = "AuthFailure"

\* C3: the first 4 bytes of every frame of encode(), as a little-endian
\* int32, are 4 + 4 + (UTF-8 length of the payload) + 2, the number of
\* bytes after the prefix.
C3_LengthPrefix ==
    c_pc \in {"encoded", "decoded"}
        => /\ Len(c_frame) >= 4
           /\ FirstInt(c_frame) = 4 + 4 + Utf8ByteLength(c_pkt.payload) + 2
           /\ FirstInt(c_frame) = Len(c_frame) - 4

C3_Witness ==
    /\ c_pc = "encoded"
    /\ c_pkt = Packet(Help, COMMAND, 42)
    /\ FirstInt(c_frame) = 14

(***************************************************************************)
(* Properties of establish_connection and send_command, under Spec.        *)
(***************************************************************************)
\* A coroutine that has finished and whose result the caller has not taken.
LoginDone(rec) == rec.pc = "done" /\ rec.op = "login"

CommandDone(rec) == rec.pc = "done" /\ rec.op = "command"

\* The coroutine got as far as reading the response from its transport.
ReadAttempted(rec) ==
    /\ rec.pc \in {"done", "l_body", "l_wait_closed", "c_body"}
    /\ rec.con # NoConn
    /\ rec.wrote
    /\ rec.result.value # "ConnectionResetError"

\* The shapes of what the remote sent, read off the recorded input.
ShortPrefix(rec) == ReadAttempted(rec) /\ rec.nread < 4

IncompleteBody(rec) ==
    /\ ReadAttempted(rec)
    /\ rec.nread = 4
    /\ response_length(rec.resp) >= 0
    /\ Len(rec.resp) - 4 < response_length(rec.resp)

BodyRead(rec) ==
    /\ ReadAttempted(rec)
    /\ rec.nread = 4
    /\ response_length(rec.resp) >= 0
    /\ Len(rec.resp) - 4 >= response_length(rec.resp)

Body(rec) == Slice(rec.resp, 4, 4 + response_length(rec.resp))

\* The body is the auth-failure sentinel: id -1 in a complete header.
Sentinel(rec) ==
    BodyRead(rec) /\ Len(Body(rec)) >= 8 /\ FirstInt(Body(rec)) = AUTH_FAIL

\* The body decodes to a packet.
WellFormed(rec) == BodyRead(rec) /\ Decode(Body(rec)).kind = "packet"

Echo(rec) == WellFormed(rec) /\ Decode(Body(rec)).r_id = rec.r_id

Mismatch(rec) == WellFormed(rec) /\ Decode(Body(rec)).r_id # rec.r_id

\* The session of connection c is AUTHENTICATED: c is the open connection
\* the registry holds for its server.
Authenticated(c) ==
    c # NoConn /\ writers[c] = "open" /\ connections[peer[c]] = c

Finishes(t) == task[t].pc # "done" /\ task'[t].pc = "done"

\* C4: a login registers its connection if and only if the decoded response
\* carries the id of the login request; the registry changes in no other
\* way, so a login answered with another id or with the auth-failure
\* sentinel never has its connection registered.
C4_RegisteredIffEcho ==
    [][ /\ \A t \in Tasks :
             (Finishes(t) /\ task'[t].op = "login" /\ task'[t].con # NoConn)
                 => (connections'[task'[t].server] = task'[t].con
                        <=> Echo(task'[t]))
        /\ \A s \in Servers :
             connections'[s] # connections[s]
                 => \E t \in Tasks :
                       /\ Finishes(t)
                       /\ task'[t].op = "login"
                       /\ task'[t].server = s
                       /\ connections'[s] = task'[t].con
                       /\ Echo(task'[t]) ]_vars

C4_Witness ==
    \E t \in Tasks :
        /\ LoginDone(task[t])
        /\ Echo(task[t])
        /\ task[t].result = Return("True")
        /\ Authenticated(task[t].con)

\* C5 as stated: a command on a connection whose session is not
\* AUTHENTICATED writes nothing to the transport and reads nothing from it.
C5_NoIOUnlessAuthenticated ==
    [][ \A t \in Tasks :
          (task'[t].op = "command" /\ ~Authenticated(task'[t].con))
              => /\ task[t].pc = "idle" => ~task'[t].wrote
                 /\ task'[t].pc # "c_body" ]_vars

\* C6: for a response that decodes to a packet, send_command returns the
\* payload exactly when the id is the id of the command and the type is
\* RESPONSE, and returns None otherwise; it raises nothing.
C6_CommandResult ==
    \A t \in Tasks :
        (CommandDone(task[t]) /\ WellFormed(task[t]))
            => LET response == Decode(Body(task[t]))
               IN  IF response.r_id = task[t].r_id /\ response.r_type = RESPONSE
                   THEN task[t].result = ReturnStr(response.payload)
                   ELSE task[t].result = Return("None")

C6_Witness ==
    \E t \in Tasks :
        /\ CommandDone(task[t])
        /\ Echo(task[t])
        /\ task[t].result = ReturnStr(<< 111, 107 >>)

\* C7 as stated: a command whose response is short, in the length prefix or
\* in the body, returns None, raises nothing and leaves the registry entry
\* and the connection as they were.
C7_ShortReadNoResult ==
    \A t \in Tasks :
        (CommandDone(task[t]) /\ (ShortPrefix(task[t]) \/ IncompleteBody(task[t])))
            => /\ task[t].result = Return("None")
               /\ connections[task[t].server] = task[t].old
               /\ writers[task[t].con] = "open"

\* C8 as stated: when a sequential login has succeeded, the connection in
\* the registry is the only connection to that server that is open.
OpenTo(server) == { c \in Conns : writers[c] = "open" /\ peer[c] = server }

C8_OneOpenConnection ==
    \A t \in Tasks :
        (LoginDone(task[t]) /\ task[t].result = Return("True"))
            => OpenTo(task[t].server) = { connections[task[t].server] }

\* C9: a login whose response is not the echo of its request id (the
\* auth-failure sentinel, another id, an incomplete or malformed response),
\* made while the registry holds a connection for the server, leaves that
\* entry as it was and the connection open.
C9_FailedLoginKeepsOld ==
    \A t \in Tasks :
        (LoginDone(task[t]) /\ ~Echo(task[t]) /\ task[t].old # NoConn)
            => /\ connections[task[t].server] = task[t].old
               /\ writers[task[t].old] = "open"

C9_Witness ==
    \E t \in Tasks :
        /\ LoginDone(task[t])
        /\ Sentinel(task[t])
        /\ task[t].old # NoConn
        /\ connections[task[t].server] = task[t].old
        /\ writers[task[t].con] = "open"

Calls(op) ==
    CanCall /\ sup' # sup /\ sup'.op = op /\ sup'.pc # "idle"

TerminateDone == sup.pc = "done" /\ sup.op = "terminate"

C12_KillOnlySurvivors ==
    [][ /\ (sup.pc = "t_wait" /\ sup'.pc = "t_wait_kill")
            => sup'.killed = sup.processes \cap Running
        /\ (sup.pc = "t_wait_kill" /\ sup'.pc = "done" /\ sup.first_alive = {})
            => sup'.killed = {} /\ sup'.result = Return("None")
        /\ sup'.killed # sup.killed
            => sup.pc = "t_wait" \/ sup'.killed = {} ]_vars

C12_Witness ==
    /\ TerminateDone
    /\ Cardinality(sup.processes) >= 2
    /\ sup.terminated = sup.processes
    /\ sup.killed = {}
    /\ sup.result = Return("None")

\* C13 as stated: after _terminate has raised TerminationFailed with the
\* server process among the survivors, find for the same name returns that
\* process (the process still has a child, as find requires).
C13_FindAfterFailedTerminate ==
    [][ ( /\ TerminateDone
          /\ sup.result = TerminationFailed(sp.name)
          /\ sp.process \in sup.alive
          /\ sp.process \in Running
          /\ Children(sp.process) # {}
          /\ sup'.op = "find" )
            => /\ sup'.result.kind = "return"
               /\ sp'.process = sp.process ]_vars

\* C14 as stated: find returns a handle whenever some process has the name
\* in its command line and has a child, and raises ProcessNotFound only
\* when no process does.
C14_FindOutcome ==
    [][ Calls("find")
            => IF \E p \in Running : /\ InList(sup'.name, procs[p].cmdline)
                                     /\ Children(p) # {}
               THEN /\ sup'.result.kind = "return"
                    /\ sp'.process \in Running
                    /\ InList(sup'.name, procs[sp'.process].cmdline)
                    /\ Children(sp'.process) # {}
               ELSE sup'.result = Raise("ProcessNotFound", "") ]_vars

\* C15 as stated: checkServerRunning(name) is true if and only if some
\* process has an argument that contains name + '.jar' as a substring.
HasJarArgument(name) ==
    \E p \in Running :
        \E i \in 1..Len(procs[p].cmdline) :
            IsSubstring(name \o DotJar, procs[p].cmdline[i])

C15_RunningIffJarArgument ==
    [][ Calls("check")
            => (sup'.result = Return("True") <=> HasJarArgument(sup'.name)) ]_vars

(***************************************************************************)
(* Properties of the lifecycle operations, under CtlSpec.                  *)
(***************************************************************************)
StopSequence == StopCommands \o << StopCommand >>

\* C16: the screen is sent the warning commands and 'save-all' and then
\* 'stop', in that order; a command is sent only when the one before it has
\* completed, and 'stop' is sent no sooner than 5 seconds after 'save-all'
\* has completed, so never before 'save-all'.
C16_StopOrder ==
    ctl.op = "stop" =>
        /\ Len(screen) <= Len(StopSequence)
        /\ \A k \in 1..Len(screen) :
            /\ screen[k].cmd = StopSequence[k]
            /\ k > 1 => /\ screen[k - 1].exited # NotYet
                        /\ screen[k - 1].exited <= screen[k].sent
            /\ screen[k].cmd = StopCommand
                => screen[k].sent >= screen[k - 1].exited + 5
        /\ ctl.pc = "done" => /\ Len(screen) = Len(StopSequence)
                              /\ screen[Len(screen)].exited # NotYet

C16_Witness ==
    /\ ctl.op = "stop"
    /\ ctl.pc = "done"
    /\ screen[Len(screen)].cmd = "stop"
    /\ screen[Len(screen) - 1].cmd = "save-all"
    /\ screen[Len(screen)].sent = screen[Len(screen) - 1].exited + 5

\* The state of a server as the lifecycle operations leave it: STOPPED when
\* its process is gone, TERMINATING while a forced termination of it has
\* not succeeded.
State(server) ==
    IF ~up[server] THEN "STOPPED"
    ELSE IF ctl.op = "terminate" /\ ctl.server = server THEN "TERMINATING"
    ELSE "RUNNING"

C18_StatusIsolatesFailures ==
    (ctl.op = "status" /\ ctl.pc = "done" /\ ctl.failed # {})
        => /\ ctl.result = Return("dict")
           /\ \A k \in 1..Len(ctl.servers) :
                ctl.servers[k] \notin ctl.failed
                    => \E b \in BOOLEAN : << ctl.servers[k], b >> \in ctl.status

(***************************************************************************)
(* Properties of concurrent callers, under ConcSpec.                       *)
(***************************************************************************)
\* A command that was written and whose response has not been read.
Outstanding(t) ==
    /\ task[t].op = "command"
    /\ task[t].wrote
    /\ task[t].pc \in {"c_read", "c_body"}

\* C19 as stated: on one connection at most one command is outstanding.
C19_OneOutstandingRequest ==
    \A t1 \in Tasks, t2 \in Tasks :
        (t1 # t2 /\ Outstanding(t1) /\ Outstanding(t2))
            => task[t1].con # task[t2].con

\* C20 as stated: while a login for a server is under way, the entry of the
\* server in connections, if any, is an open connection.
C20_RegistryNeverClosed ==
    \A t \in Tasks :
        (task[t].op = "login" /\ task[t].pc \notin {"idle", "done"}
            /\ connections[task[t].server] # NoConn)
            => writers[connections[task[t].server]] = "open"

\* A login that has been called and has not returned.
LoginInFlight(t) ==
    task[t].op = "login" /\ task[t].pc \notin {"idle", "done"}

AllReturned == \A t \in Tasks : task[t].pc \in {"idle", "done"}

\* An open connection that connections does not hold.
Leaked(c) == writers[c] = "open" /\ connections[peer[c]] # c

\* C21 as stated: no two logins for one server are in flight together, and
\* once every call has returned each open connection is the one that
\* connections holds for its server.
C21_OneLoginNoLeak ==
    /\ \A t1 \in Tasks, t2 \in Tasks :
        (t1 # t2 /\ LoginInFlight(t1) /\ LoginInFlight(t2))
            => task[t1].server # task[t2].server
    /\ AllReturned => \A c \in Conns : ~Leaked(c)

(***************************************************************************)
(* Properties of concurrent lifecycle calls, under LifeSpec.               *)
(***************************************************************************)
InProgress(frame) == frame.pc \notin {"idle", "done"}

\* C22 as stated: two lifecycle calls for one server are never in progress
\* together; the second does not begin before the first, its grace
\* interval included, has finished.
C22_SerializedPerServer ==
    (InProgress(ctl) /\ InProgress(ctl2)) => ctl.server # ctl2.server

\* C25 as stated: serverStart of a server that is not STOPPED spawns no
\* process.
C25_StartRequiresStopped ==
    [][ \A s \in Servers :
        (ctl.pc = "idle" /\ ctl'.op = "start" /\ ctl'.server = s
            /\ State(s) # "STOPPED")
            => ~ctl'.spawned ]_vars

(***************************************************************************)
(* Properties of get_rcon_spec, under PropsSpec.                           *)
(***************************************************************************)
LookedUp == info # Pending

\* The file has a line that sets key to value.
Sets(key, value) ==
    \E i \in 1..Len(props.file) : props.file[i] = << key, Eq >> \o value \o << Eol >>

\* The file has a line that sets key to something that is not empty.
IsSet(key) ==
    \E i \in 1..Len(props.file) :
        /\ Len(props.file[i]) > 3
        /\ SubSeq(props.file[i], 1, 2) = << key, Eq >>

\* The number of lines that begin with an RCON key.
RconLineCount == Cardinality({ i \in 1..Len(props.file) : props.file[i][1] \in RconKeys })

\* One line for each RCON key, each with its '='.
OneLineEach ==
    /\ RconLineCount = 3
    /\ \A key \in RconKeys :
        \E i \in 1..Len(props.file) : SubSeq(props.file[i], 1, 2) = << key, Eq >>

C24_EveryCallReturns ==
    \A t \in SeqTasks :
        (task[t].pc \notin {"idle", "done"}) ~> (task[t].pc = "done")

(***************************************************************************)
(* Further properties of _terminate (ProcSpec) and send_command (Spec).    *)
(***************************************************************************)
\* C29 as stated: _terminate ends in a normal return or in
\* TerminationFailed and in nothing else, whenever the processes of the
\* tree exit.
C29_TwoOutcomes ==
    TerminateDone
        => sup.result \in { Return("None"), TerminationFailed(sup.name) }

\* C30 as stated: once send_command has raised AuthFailure, connections no
\* longer holds the connection the command was sent on.
C30_AuthFailureDisconnects ==
    \A t \in SeqTasks :
        (CommandDone(task[t]) /\ task[t].result = Raise("AuthFailure", ""))
            => connections[peer[task[t].con]] # task[t].con

(***************************************************************************)
(* Properties of SizedDict, under SizedSpec.                               *)
(***************************************************************************)
Assigned == [key |-> sized'.key, value |-> sized'.value]

\* C26: after an assignment the dict holds at most max_size items; a new
\* key assigned to a full dict removes the oldest item and nothing else, a
\* new key assigned to a dict that is not full removes nothing, and an
\* assignment to a key of the dict removes nothing; the assigned key is
\* the newest item in each case.
C26_SizedDict ==
    [][ /\ Len(sized'.items) <= sized.max_size
        /\ sized'.max_size = sized.max_size
        /\ IF sized'.key \in KeysOf(sized.items)
           THEN sized'.items = Without(sized.items, sized'.key) \o << Assigned >>
           ELSE IF Len(sized.items) = sized.max_size
           THEN sized'.items = Tail(sized.items) \o << Assigned >>
           ELSE sized'.items = sized.items \o << Assigned >> ]_vars

C26_Witness ==
    /\ sized.max_size = MaxSize
    /\ Len(sized.items) = sized.max_size
    /\ sized.popped = 1
    /\ sized.items[Len(sized.items)].key = sized.key

(***************************************************************************)
(* Properties of SimpleTTLDict, under TtlSpec.                             *)
(***************************************************************************)
Dates(items) == { items[i].date : i \in 1..Len(items) }

\* The items of the dict other than the one of key.
Others(items, key) ==
    { items[i] : i \in { j \in 1..Len(items) : items[j].key # key } }

\* C27 as stated: after an assignment every item of the dict is at most ttl
\* seconds older than the assignment, and getvalue and find remove
\* nothing.
C27_AgeAtAssignment ==
    [][ /\ ttl'.op = "set"
            => \A d \in Dates(ttl'.items) : ttl'.clock - d <= ttl.ttl
        /\ ttl'.op \in {"getvalue", "find"} => ttl'.items = ttl.items ]_vars

\* C27, amended: after an assignment every item of the dict is at most ttl
\* seconds older than the clock reading of _expire, which is the first of
\* the two readings of the assignment; the items kept are all the items
\* that were no older than that, and getvalue and find remove nothing.
C27_AgeAtExpiry ==
    [][ /\ ttl'.op = "set"
            => /\ \A d \in Dates(ttl'.items) : ttl'.expired_at - d <= ttl.ttl
               /\ Others(ttl'.items, ttl'.key)
                    = { e \in Others(ttl.items, ttl'.key) :
                            ttl'.expired_at - e.date <= ttl.ttl }
               /\ ttl'.items[Len(ttl'.items)].key = ttl'.key
               /\ ttl'.items[Len(ttl'.items)].date = ttl'.clock
        /\ ttl'.op \in {"getvalue", "find"} => ttl'.items = ttl.items ]_vars

C27_Witness ==
    /\ ttl.op = "set"
    /\ Len(ttl.items) = 2
    /\ ttl.ttl = 1
    /\ ttl.items[1].date = ttl.expired_at - 1
    /\ ttl.items[2].date = ttl.expired_at + 1

(***************************************************************************)
(* Properties of discover_servers and find_server, under DirsSpec.         *)
(***************************************************************************)
\* The subdirectory d has a path in the list.
ListedIn(list, d) == \E p \in list : p[1] = d

\* C28 as stated: discover_servers lists a subdirectory in at most one of
\* the two lists, under 'enabled' when it holds both markers and nowhere
\* when it holds none, each time by the path of the subdirectory itself;
\* find_server gives a directory the status that goes with its list.
C28_ListingByBasePath ==
    /\ (listing.op = "discover" /\ listing.error = "")
        => \A d \in DirNames :
            LET e == dirs.entries[d]
            IN  /\ ~(ListedIn(listing.enabled, d) /\ ListedIn(listing.disabled, d))
                /\ ListedIn(listing.enabled, d) <=> (e.kind = "dir" /\ e.enabled)
                /\ ListedIn(listing.disabled, d)
                    <=> (e.kind = "dir" /\ ~e.enabled /\ e.disabled)
                /\ \A p \in listing.enabled \cup listing.disabled :
                    p[1] = d => p = BasePath(d)
    /\ (listing.op = "find" /\ listing.error = ""
            /\ dirs.entries[listing.name].kind = "dir")
        => LET e == dirs.entries[listing.name]
           IN  /\ listing.path = BasePath(listing.name)
               /\ listing.status = IF e.enabled THEN Enabled
                                   ELSE IF e.disabled THEN Disabled
                                   ELSE Untracked

(***************************************************************************)
(* Request ids, under Spec.                                                *)
(***************************************************************************)
\* The request of the task got its generated id (rcon.py:54, 90).
Generated(rec) ==
    \/ rec.op = "command"
    \/ rec.op = "login" /\ (rec.wrote \/ rec.pc = "l_open"
                            \/ rec.result = Raise("OSError", ""))

\* The call took the response for the echo of its request.
TakenForEcho(rec) ==
    /\ rec.pc = "done"
    /\ \/ rec.result = Return("True")
       \/ rec.result.kind = "return" /\ rec.result.value = "str"

\* C31: every generated request id lies in 16..214742069, so it is never 0,
\* never negative and never the auth-failure sentinel -1, it survives the
\* 32-bit encoding, and a response with id -1 is never taken for its echo.
C31_GeneratedIdRange ==
    \A t \in Tasks :
        /\ Generated(task[t]) =>
            /\ task[t].r_id \in 16..214742069
            /\ task[t].r_id > 0
            /\ task[t].r_id # AUTH_FAIL
            /\ Unpack(Pack(task[t].r_id)) = task[t].r_id
        /\ (Generated(task[t]) /\ TakenForEcho(task[t])) =>
            /\ BodyRead(task[t])
            /\ FirstInt(Body(task[t])) # AUTH_FAIL
            /\ FirstInt(Body(task[t])) = task[t].r_id

\* A command with the id at the upper end of the range was answered with
\* its echo and the answer was taken.
C31_Witness ==
    \E t \in Tasks :
        /\ Generated(task[t]) /\ TakenForEcho(task[t])
        /\ task[t].op = "command"
        /\ task[t].r_id = MaxRandomId
        /\ Echo(task[t])

(***************************************************************************)
(* The connection of a failed login, under Spec.                           *)
(***************************************************************************)
\* C32 as stated: when a login fails after its transport was opened (the
\* auth-failure response, another id, an incomplete response), the
\* connection it opened is closed by the time establish_connection is done,
\* so no open connection is outside the registry.
C32_FailedLoginClosesItsConnection ==
    \A t \in Tasks :
        (/\ LoginDone(task[t])
         /\ task[t].con # NoConn
         /\ Sentinel(task[t]) \/ Mismatch(task[t]) \/ IncompleteBody(task[t]))
            => /\ writers[task[t].con] = "closed"
               /\ ~Leaked(task[t].con)

(***************************************************************************)
(* The process tree after terminate, under ProcSpec.                       *)
(***************************************************************************)
\* The processes started since terminate collected the tree by a process
\* of ps, or by a process so started.
RECURSIVE SpawnedFrom(_, _)
SpawnedFrom(ps, n) ==
    IF n = 0 THEN ps
    ELSE SpawnedFrom(ps \cup { q \in Started \ sup.seen : procs[q].creator \in ps },
                     n - 1)

\* The tree of the server: what terminate collected and what the collected
\* processes have spawned since.
ServerTree == SpawnedFrom(sup.processes, MaxProcs)

\* C33 as stated: when _terminate has returned normally, no process of the
\* server's tree is alive, those spawned after the tree was collected
\* included, and checkServerRunning finds a process for the name only if
\* the server was started again since.
C33_NoSurvivorAfterTerminate ==
    (TerminateDone /\ sup.result = Return("None"))
        => /\ ServerTree \cap Running = {}
           /\ \A q \in Running :
                InList(sup.name, procs[q].cmdline)
                    => q \notin sup.seen /\ q \notin ServerTree

(***************************************************************************)
(* Store.save and Store.load, under StoreSpec.                             *)
(***************************************************************************)
\* During and after a save, interrupted or not, the .json file is what it
\* was before the save or the whole of what the save writes, and it is
\* always one complete json object.
SaveIsAtomic ==
    /\ store.files["json"].exists => IsJson(store.files["json"].text)
    /\ store.op = "save"
        => \/ store.files["json"] = store.prev
           \/ store.files["json"] = [exists |-> TRUE, text |-> store.copy]
    /\ (store.op = "save" /\ store.pc = "done")
        => store.files["json"] = [exists |-> TRUE, text |-> store.copy]

\* A load that follows a completed save.
LoadAfterSave == store.op = "load" /\ store.has_saved

\* Every key is a string and no value is a tuple.
JsonNative(m) ==
    \A i \in 1..Len(m) :
        m[i].key.type = "str" /\ m[i].value.type \in {"str", "list"}

\* C34 as stated: a save leaves the .json file complete, old or new, at
\* every step, and a load after a completed save yields the saved mapping.
C34_AtomicSaveRoundTrip ==
    /\ SaveIsAtomic
    /\ LoadAfterSave => (store.error = "" /\ store.mem = store.saved)

\* C34 amended: the save is atomic as stated; a load after a completed save
\* yields what json keeps of the saved mapping, which is the saved mapping
\* when its keys are strings and its values are what json can hold.
C34_AtomicSaveJsonRoundTrip ==
    /\ SaveIsAtomic
    /\ LoadAfterSave
        => /\ store.error = ""
           /\ store.mem = Loads(Dumps(store.saved))
           /\ \A i \in 1..Len(store.mem) : store.mem[i].key.type = "str"
           /\ JsonNative(store.saved) => store.mem = store.saved

\* A mapping of two items was saved, changed in memory, a later save was
\* interrupted with the .tmp file half written, and the load gave the saved
\* mapping back.
C34_Witness ==
    /\ LoadAfterSave
    /\ Len(store.saved) = 2
    /\ JsonNative(store.saved)
    /\ store.mem = store.saved
    /\ store.files["tmp"].exists
    /\ store.files["tmp"].text # << >>
    /\ ~IsJson(store.files["tmp"].text)

====
